---- MODULE Spec2Model ----
(***************************************************************************)
(* Adaptive Tool Orchestration Core of SalesBoost: retry policy, health    *)
(* monitor, cache manager, plan executor, expert gating router and         *)
(* learning engine, each as a state machine over its own variables.        *)
(* Times are integers: seconds for the cache clock, milliseconds for the   *)
(* retry delays.                                                           *)
(***************************************************************************)
EXTENDS Integers, Sequences, FiniteSets, TLC

VARIABLES
    \* RetryPolicy (one execute_with_retry call)
    max_retries, base_delay, max_delay, jitter, should_retry,
    rpc, attempt, attempts, last_exception, delay, raised, failures,
    \* MCPMesh health check
    status, avg_latency, hc_idx, prev_status, last_probe, fail_streak,
    \* MCPCacheManager over its Redis store, and the clock
    now, redis, hit_count, miss_count, last_get,
    \* MCPOrchestrator: one plan, run again and again
    plan, run, ppc, step_idx, outcomes, plan_status, from_plan_cache,
    invoked, start_exp, ledger,
    \* MixtureOfExpertsRouter: one routing request
    candidates, top_k, training, logits, rstate, gate, selected, weights, called,
    \* MCPLearningEngine
    record_queue, batch, tool_metrics, snapshot, enqueued, max_seen, proc, rec_pc, put_seen,
    \* the batch processor's clock
    lclock, wait_since, queue_since, batch_since,
    \* two requests to MCPCacheManager._generate_cache_key
    req_a, req_b, key_a, key_b,
    \* the walk of one plan in dependency order
    dag_plan, step_state, halted, max_parallel, dag_pc,
    \* a cancellation of the task running execute_with_retry
    cancelled,
    \* service worker: syncPracticeData over the pendingSync store
    pendingSync, pendingData, sync_pc, sync_i, syncs, accepted, queued,
    \* useOptimisticList: the list and one deleteItem call
    data, del_pc, del_id, oldData, data_before,
    \* StudentCustomers: the customer list and handleCreateCustomer
    customers, saving, createDialogOpen, create_pc, create_data, customers_before, creates,
    \* useAuthStore, the mock-auth item of localStorage, and one signOut call
    user, session, isLoading, isAuthenticated, mock_auth, isSupabaseMock, signout_pc,
    signouts, remote_result

retryVars == <<max_retries, base_delay, max_delay, jitter, should_retry,
               rpc, attempt, attempts, last_exception, delay, raised, failures>>
healthVars == <<status, avg_latency, hc_idx, prev_status, last_probe, fail_streak>>
cacheVars == <<now, redis, hit_count, miss_count, last_get>>
planVars == <<plan, run, ppc, step_idx, outcomes, plan_status, from_plan_cache,
              invoked, start_exp, ledger>>
routeVars == <<candidates, top_k, training, logits, rstate, gate, selected, weights,
               called>>
flushVars == <<lclock, wait_since, queue_since, batch_since>>
learnVars == <<record_queue, batch, tool_metrics, snapshot, enqueued, max_seen, proc,
               rec_pc, put_seen, flushVars>>
keyVars == <<req_a, req_b, key_a, key_b>>
dagVars == <<dag_plan, step_state, halted, max_parallel, dag_pc>>
cancelVars == <<cancelled>>
syncVars == <<pendingSync, pendingData, sync_pc, sync_i, syncs, accepted, queued>>
listVars == <<data, del_pc, del_id, oldData, data_before>>
customersVars == <<customers, saving, createDialogOpen, create_pc, create_data, customers_before, creates>>
authVars == <<user, session, isLoading, isAuthenticated, mock_auth, isSupabaseMock,
              signout_pc, signouts, remote_result>>
vars == <<retryVars, healthVars, cacheVars, planVars, routeVars, learnVars, keyVars,
          dagVars,
          cancelVars,
          syncVars,
          listVars,
          customersVars,
          authVars>>

\* what the actions of one component leave alone
notRetryVars ==
    <<healthVars, cacheVars, planVars, routeVars, learnVars, keyVars, dagVars,
     cancelVars,
     syncVars,
     listVars,
     customersVars,
     authVars>>
notHealthVars ==
    <<retryVars, cacheVars, planVars, routeVars, learnVars, keyVars, dagVars,
     cancelVars,
     syncVars,
     listVars,
     customersVars,
     authVars>>
notCacheVars ==
    <<retryVars, healthVars, planVars, routeVars, learnVars, keyVars, dagVars,
     cancelVars,
     syncVars,
     listVars,
     customersVars,
     authVars>>
notPlanVars ==
    <<healthVars, routeVars, learnVars, keyVars, dagVars,
     cancelVars,
     syncVars,
     listVars,
     customersVars,
     authVars>>
notRouteVars ==
    <<retryVars, healthVars, cacheVars, planVars, learnVars, keyVars, dagVars,
     cancelVars,
     syncVars,
     listVars,
     customersVars,
     authVars>>
notKeyVars ==
    <<retryVars, healthVars, cacheVars, planVars, routeVars, learnVars, dagVars,
     cancelVars,
     syncVars,
     listVars,
     customersVars,
     authVars>>
notDagVars ==
    <<retryVars, healthVars, cacheVars, planVars, routeVars, learnVars, keyVars,
     cancelVars,
     syncVars,
     listVars,
     customersVars,
     authVars>>
notRetryCancelVars ==
    <<healthVars, cacheVars, planVars, routeVars, learnVars, keyVars, dagVars,
     syncVars,
     listVars,
     customersVars,
     authVars>>
notSyncVars ==
    <<retryVars, healthVars, cacheVars, planVars, routeVars, learnVars, keyVars, dagVars, cancelVars,
     listVars,
     customersVars,
     authVars>>
notListVars ==
    <<retryVars, healthVars, cacheVars, planVars, routeVars, learnVars, keyVars, dagVars, cancelVars, syncVars,
     customersVars,
     authVars>>
notCustomersVars ==
    <<retryVars, healthVars, cacheVars, planVars, routeVars, learnVars, keyVars, dagVars, cancelVars, syncVars, listVars,
     authVars>>
notAuthVars ==
    <<retryVars, healthVars, cacheVars, planVars, routeVars, learnVars, keyVars, dagVars, cancelVars, syncVars, listVars, customersVars>>
notLearnVars ==
    <<retryVars, healthVars, cacheVars, planVars, routeVars, keyVars, dagVars,
     cancelVars,
     syncVars,
     listVars,
     customersVars,
     authVars>>

-----------------------------------------------------------------------------
(* Bounds of the model *)

MaxRetriesBound == 3
MaxStreak == 3
MaxTime == 5400
MaxGets == 2
MaxRuns == 2
MaxPlanTime == 600
MaxLogit == 1
MaxQueue == 2
MaxRecords == 11
MaxClock == 7
MaxParallel == 2
MaxSyncs == 2
MaxCreates == 3
MaxSignOuts == 2

-----------------------------------------------------------------------------
(* RetryPolicy *)

exponential_base == 2

\* should_retry=None, or a predicate given by the errors it answers True for
Errors == {"TimeoutError", "ConnectionError", "ValueError"}
NoPredicate == [given |-> FALSE, retryable |-> {}]
Predicates == {[given |-> TRUE, retryable |-> S] : S \in SUBSET Errors}
BaseDelays == {1, 2}
MaxDelays == {3, 30}
\* random.random() in [0, 1), in thousandths
RandomSamples == {0, 250, 500, 750, 999}

RetryIdle ==
    /\ max_retries = 0 /\ base_delay = 1 /\ max_delay = 3 /\ jitter = FALSE
    /\ should_retry = NoPredicate
    /\ rpc = "idle" /\ attempt = 0 /\ attempts = 0
    /\ last_exception = "None" /\ delay = 0
    /\ raised = "None" /\ failures = 0

RetryInit ==
    /\ max_retries \in 0..MaxRetriesBound
    /\ base_delay \in BaseDelays
    /\ max_delay \in MaxDelays
    /\ jitter \in BOOLEAN
    /\ should_retry \in {NoPredicate} \cup Predicates
    /\ rpc = "idle" /\ attempt = 0 /\ attempts = 0
    /\ last_exception = "None" /\ delay = 0
    /\ raised = "None" /\ failures = 0

Min(a, b) == IF a <= b THEN a ELSE b

\* min(base_delay * exponential_base ** attempt, max_delay), in seconds
CappedDelay(n) == Min(base_delay * (exponential_base ^ n), max_delay)

\* the jitter factor 0.5 + random.random(), in thousandths
JitterFactor(r) == 500 + r

\* get_delay(attempt), in milliseconds
get_delay(n, r) ==
    IF jitter THEN CappedDelay(n) * JitterFactor(r) ELSE CappedDelay(n) * 1000

\* should_retry and not should_retry(e)
RefusesRetry(e) == should_retry.given /\ e \notin should_retry.retryable

IsLastAttempt(a) == a >= max_retries

NextAttempt_Stuck(a) == a

\* the for loop's next index
NextAttempt(a) == a + 1

\* for attempt in range(self.max_retries + 1)
InRange(a) == a < max_retries + 1

RetryStart ==
    /\ rpc = "idle"
    /\ rpc' = IF InRange(0) THEN "calling" ELSE "raised"
    /\ attempt' = 0
    /\ UNCHANGED <<max_retries, base_delay, max_delay, jitter, should_retry,
                   attempts, last_exception, delay, raised, failures, notRetryVars>>

FuncReturns ==
    /\ rpc = "calling"
    /\ attempts' = attempts + 1
    /\ rpc' = "returned"
    /\ UNCHANGED <<max_retries, base_delay, max_delay, jitter, should_retry,
                   attempt, last_exception, delay, raised, failures, notRetryVars>>

Reraise_Wrapped(e) == "RetryError"

\* raise, inside the except block: the exception of this attempt goes on
Reraise(e) == e

FuncRaises(e, r) ==
    /\ rpc = "calling"
    /\ attempts' = attempts + 1
    /\ failures' = failures + 1
    /\ last_exception' = e
    /\ IF RefusesRetry(e) \/ IsLastAttempt(attempt)
       THEN /\ rpc' = "raised"
            /\ raised' = Reraise(e)
            /\ delay' = delay
       ELSE /\ rpc' = "sleeping"
            /\ raised' = raised
            /\ delay' = get_delay(attempt, r)
    /\ UNCHANGED <<max_retries, base_delay, max_delay, jitter, should_retry, attempt,
                   notRetryVars>>

RetryWake ==
    /\ rpc = "sleeping"
    /\ attempt' = NextAttempt(attempt)
    /\ rpc' = IF InRange(NextAttempt(attempt)) THEN "calling" ELSE "raised"
    /\ raised' = IF InRange(NextAttempt(attempt)) THEN raised ELSE last_exception
    /\ UNCHANGED <<max_retries, base_delay, max_delay, jitter, should_retry,
                   attempts, last_exception, delay, failures, notRetryVars>>

CancelIdle == cancelled = FALSE

\* the exceptions that do not derive from Exception
BaseExceptions == {"CancelledError"}

ExceptException_CatchesAll(e) == TRUE

\* except Exception as e: catches e
ExceptException(e) == e \notin BaseExceptions

\* the task is cancelled while it awaits func or asyncio.sleep: CancelledError
\* is raised at the await; only one raised inside the try can be caught
RetryCancel(r) ==
    /\ rpc \in {"calling", "sleeping"}
    /\ ~cancelled
    /\ cancelled' = TRUE
    /\ IF rpc = "calling" /\ ExceptException("CancelledError")
       THEN /\ attempts' = attempts + 1
            /\ failures' = failures + 1
            /\ last_exception' = "CancelledError"
            /\ IF RefusesRetry("CancelledError") \/ IsLastAttempt(attempt)
               THEN /\ rpc' = "raised"
                    /\ raised' = Reraise("CancelledError")
                    /\ delay' = delay
               ELSE /\ rpc' = "sleeping"
                    /\ raised' = raised
                    /\ delay' = get_delay(attempt, r)
       ELSE /\ rpc' = "cancelled"
            /\ raised' = "CancelledError"
            /\ UNCHANGED <<attempts, failures, last_exception, delay>>
    /\ UNCHANGED <<max_retries, base_delay, max_delay, jitter, should_retry, attempt,
                   notRetryCancelVars>>

RetryNext ==
    \/ \E r \in RandomSamples : RetryCancel(r)
    \/ RetryStart
    \/ FuncReturns
    \/ \E e \in Errors, r \in RandomSamples : FuncRaises(e, r)
    \/ RetryWake

-----------------------------------------------------------------------------
(* MCPMesh health check *)

Nodes == <<"node-1", "node-2">>
NodeIds == {Nodes[i] : i \in 1..Len(Nodes)}
ProbeOutcomes == {"healthy", "unhealthy", "raised"}
Latencies == {0, 10}

\* configuration option of the design; the health check keeps no such count
offlineThreshold == 2

HealthInit ==
    /\ status = [n \in NodeIds |-> "online"]
    /\ avg_latency = [n \in NodeIds |-> 0]
    /\ hc_idx = 1
    /\ prev_status = [n \in NodeIds |-> "online"]
    /\ last_probe = [n \in NodeIds |-> "none"]
    /\ fail_streak = [n \in NodeIds |-> 0]

StatusAfterProbe_Strict(st, outcome) ==
    CASE outcome = "healthy" -> IF st = "degraded" THEN "online" ELSE st
      [] outcome = "unhealthy" -> IF st = "online" THEN "offline" ELSE st
      [] OTHER -> "offline"

\* the status one probe of _check_all_nodes leaves
StatusAfterProbe(st, outcome) ==
    CASE outcome = "healthy" -> IF st = "degraded" THEN "online" ELSE st
      [] outcome = "unhealthy" -> IF st = "online" THEN "degraded" ELSE st
      [] OTHER -> "offline"

\* 0.9 * avg_latency + 0.1 * latency
RollingLatency(avg, lat) == (9 * avg + lat) \div 10

\* one iteration of the for loop of _check_all_nodes
CheckNode(outcome, lat) ==
    LET n == Nodes[hc_idx] IN
    /\ status' = [status EXCEPT ![n] = StatusAfterProbe(status[n], outcome)]
    /\ avg_latency' = [avg_latency EXCEPT ![n] =
                          IF outcome = "healthy" THEN RollingLatency(@, lat) ELSE @]
    /\ prev_status' = [prev_status EXCEPT ![n] = status[n]]
    /\ last_probe' = [last_probe EXCEPT ![n] = outcome]
    /\ fail_streak' = [fail_streak EXCEPT ![n] =
                          IF outcome = "healthy" THEN 0 ELSE Min(@ + 1, MaxStreak)]
    /\ hc_idx' = IF hc_idx = Len(Nodes) THEN 1 ELSE hc_idx + 1
    /\ UNCHANGED notHealthVars

HealthNext ==
    \E outcome \in ProbeOutcomes, lat \in Latencies : CheckNode(outcome, lat)

-----------------------------------------------------------------------------
(* Redis: GET, and SETEX with a time to live in seconds *)

NoTag == [set_at |-> -1, ttl |-> -1, run |-> 0, payload |-> "None"]
NoEntry == [present |-> FALSE, val |-> [json |-> "nil"], exp |-> 0, tag |-> NoTag]
Nil == [found |-> FALSE, val |-> [json |-> "nil"]]

\* SETEX key ttl value: the key expires ttl seconds after it is set
RedisSetex(store, key, ttl, value, tag) ==
    [store EXCEPT ![key] =
        [present |-> TRUE, val |-> value, exp |-> now + ttl, tag |-> tag]]

\* GET key: nil once the key has expired
RedisGet(key) ==
    IF redis[key].present /\ now < redis[key].exp
    THEN [found |-> TRUE, val |-> redis[key].val]
    ELSE Nil

-----------------------------------------------------------------------------
(* MCPCacheManager *)

default_ttl == 3600
\* the clock advances by half the default TTL at a time
TickStep == default_ttl \div 2

CacheTools == {"knowledge_retriever"}
\* a dict is the sequence of its (key, value) pairs, in insertion order
CacheParams == {<< <<"query", "q1">> >>, << <<"query", "q2">> >>}
CacheContext == << <<"stage", "discovery">> >>
CachePayloads == {"result-1", "result-2"}
\* the ttl argument of set; 0 stands for None
TtlInputs == {0, 1800}

\* json.dumps(result)
JsonDumps(v) == [json |-> v]

JsonLoads_Null(t) == "None"

\* json.loads(cached)
JsonLoads(t) == t.json

\* the dict keys, in alphabetical order
FieldOrder == <<"query", "stage", "timestamp">>
FieldRank(k) == CHOOSE i \in 1..Len(FieldOrder) : FieldOrder[i] = k
DictKeys(d) == {d[i][1] : i \in 1..Len(d)}

\* json.dumps(..., sort_keys=True): the pairs of a dict in the order of their keys
SortKeys(d) ==
    [i \in 1..Len(d) |->
        CHOOSE pr \in {d[j] : j \in 1..Len(d)} :
            Cardinality({k \in DictKeys(d) : FieldRank(k) < FieldRank(pr[1])}) = i - 1]

\* hashlib.sha256(...).hexdigest(): equal digests for equal strings only
Sha256(str) == [sha256 |-> str]

\* "mcp:cache:" + sha256 of the sorted-keys JSON of tool, params and context
generate_cache_key(tool, params, context) ==
    <<"mcp:cache",
      Sha256(JsonDumps([tool |-> tool, params |-> SortKeys(params),
                        context |-> SortKeys(context)]))>>

CacheKeys ==
    {generate_cache_key(t, p, CacheContext) : t \in CacheTools, p \in CacheParams}

EffectiveTtl_AlwaysDefault(ttl) == default_ttl

\* requests for a cache key: params over the fields query and timestamp, in
\* either order of insertion
KeyValues == [query |-> {"q1", "q2"}, timestamp |-> {"t1", "t2"}]
KeyParams ==
    {<<>>}
    \cup {<< <<k, v>> >> : k \in {"query"}, v \in KeyValues.query}
    \cup {<< <<"query", q>>, <<"timestamp", t>> >> :
             q \in KeyValues.query, t \in KeyValues.timestamp}
    \cup {<< <<"timestamp", t>>, <<"query", q>> >> :
             q \in KeyValues.query, t \in KeyValues.timestamp}
KeyContexts == {CacheContext, << <<"stage", "closing">> >>}
KeyRequests == [tool : CacheTools, params : KeyParams, context : KeyContexts]
NoKey == <<>>

KeyIdle == req_a = <<>> /\ req_b = <<>> /\ key_a = NoKey /\ key_b = NoKey

KeyInit ==
    /\ req_a \in KeyRequests /\ req_b \in KeyRequests
    /\ key_a = NoKey /\ key_b = NoKey

\* the key of the first request is generated
GenerateKeyA ==
    /\ key_a = NoKey
    /\ key_a' = generate_cache_key(req_a.tool, req_a.params, req_a.context)
    /\ UNCHANGED <<req_a, req_b, key_b, notKeyVars>>

\* the key of the second request is generated
GenerateKeyB ==
    /\ key_b = NoKey
    /\ key_b' = generate_cache_key(req_b.tool, req_b.params, req_b.context)
    /\ UNCHANGED <<req_a, req_b, key_a, notKeyVars>>

KeyNext == GenerateKeyA \/ GenerateKeyB

\* ttl or self.default_ttl
EffectiveTtl(ttl) == IF ttl # 0 THEN ttl ELSE default_ttl

NoGet == [key |-> <<>>, found |-> FALSE, val |-> "None", at |-> 0, tag |-> NoTag]

CacheIdle ==
    /\ now = 0
    /\ redis = [k \in {} |-> NoEntry]
    /\ hit_count = 0 /\ miss_count = 0
    /\ last_get = NoGet

CacheInit ==
    /\ now = 0
    /\ redis = [k \in CacheKeys |-> NoEntry]
    /\ hit_count = 0 /\ miss_count = 0
    /\ last_get = NoGet

\* MCPCacheManager.set
CacheSet(tool, params, result, ttl) ==
    LET key == generate_cache_key(tool, params, CacheContext) IN
    /\ redis' = RedisSetex(redis, key, EffectiveTtl(ttl), JsonDumps(result),
                           [set_at |-> now, ttl |-> ttl, run |-> 0, payload |-> result])
    /\ UNCHANGED <<now, hit_count, miss_count, last_get, notCacheVars>>

\* MCPCacheManager.get
CacheGet(tool, params) ==
    LET key == generate_cache_key(tool, params, CacheContext)
        cached == RedisGet(key)
    IN
    /\ hit_count + miss_count < MaxGets
    /\ IF cached.found
       THEN /\ hit_count' = hit_count + 1
            /\ miss_count' = miss_count
            /\ last_get' = [key |-> key, found |-> TRUE, val |-> JsonLoads(cached.val),
                            at |-> now, tag |-> redis[key].tag]
       ELSE /\ miss_count' = miss_count + 1
            /\ hit_count' = hit_count
            /\ last_get' = [key |-> key, found |-> FALSE, val |-> "None",
                            at |-> now, tag |-> redis[key].tag]
    /\ UNCHANGED <<now, redis, notCacheVars>>

\* time passes
Tick ==
    /\ now + TickStep <= MaxTime
    /\ now' = now + TickStep
    /\ UNCHANGED <<redis, hit_count, miss_count, last_get, notCacheVars>>

CacheNext ==
    \/ \E t \in CacheTools, p \in CacheParams, v \in CachePayloads, ttl \in TtlInputs :
          CacheSet(t, p, v, ttl)
    \/ \E t \in CacheTools, p \in CacheParams : CacheGet(t, p)
    \/ Tick

-----------------------------------------------------------------------------
(* MCPOrchestrator: execute(plan) with the plan-result cache, the walk over  *)
(* the plan's steps, and _execute_tool_call_enhanced for each step           *)

plan_ttl == 300
tool_ttl == 600
\* the clock advances by one plan TTL at a time
PlanTickStep == plan_ttl

PlanPayloads == {"{}", "{data}"}
\* Python truth value of a result: an empty dict is false
Truthy(v) == v # "{}"

is_retryable_error_NoTimeout == [given |-> TRUE, retryable |-> {"ConnectionError"}]

\* is_retryable_error: timeouts and connection errors
is_retryable_error == [given |-> TRUE, retryable |-> {"TimeoutError", "ConnectionError"}]

\* the plans: A then B, each critical or not, B depending on A or not
Plans ==
    { << [tool |-> "A", critical |-> c1, deps |-> {}, retry_on_failure |-> r],
         [tool |-> "B", critical |-> c2, deps |-> d, retry_on_failure |-> r] >> :
        c1 \in BOOLEAN, c2 \in BOOLEAN, d \in {{}, {1}}, r \in BOOLEAN }

Pending == [kind |-> "pending", payload |-> "", error |-> "", cached |-> FALSE]
Succeeded(v, c) == [kind |-> "success", payload |-> v, error |-> "", cached |-> c]
Failed(e) == [kind |-> "failed", payload |-> "", error |-> e, cached |-> FALSE]
UpstreamFailed ==
    [kind |-> "upstream_failed", payload |-> "", error |-> "UpstreamFailed",
     cached |-> FALSE]

ToolKey(call) == generate_cache_key(call.tool, <<>>, CacheContext)
\* _generate_plan_key(plan): identical plans have the same key
PlanKey(p) == <<"mcp:plan", p>>

PlanIdle ==
    /\ plan = <<>> /\ run = 0 /\ ppc = "idle" /\ step_idx = 0
    /\ outcomes = <<>> /\ plan_status = "pending" /\ from_plan_cache = FALSE
    /\ invoked = {} /\ start_exp = <<>> /\ ledger = <<>>

\* RetryPolicy(max_retries=3, base_delay=1.0, max_delay=30.0)
PlanInit ==
    /\ plan \in Plans
    /\ run = 0 /\ ppc = "idle" /\ step_idx = 0
    /\ outcomes = [i \in 1..2 |-> Pending]
    /\ plan_status = "pending" /\ from_plan_cache = FALSE
    /\ invoked = {} /\ start_exp = [i \in 0..2 |-> 0] /\ ledger = <<>>
    /\ now = 0
    /\ redis = [k \in {ToolKey(plan[i]) : i \in 1..2} \cup {PlanKey(plan)} |-> NoEntry]
    /\ hit_count = 0 /\ miss_count = 0 /\ last_get = NoGet
    /\ max_retries = 3 /\ base_delay = 1 /\ max_delay = 30 /\ jitter = TRUE
    /\ should_retry = NoPredicate
    /\ rpc = "idle" /\ attempt = 0 /\ attempts = 0
    /\ last_exception = "None" /\ delay = 0
    /\ raised = "None" /\ failures = 0

\* ExecutionResult.success
ResultSuccess(st) == st = "succeeded"

ShouldCachePlan_Always(st) == TRUE

\* if self.cache_manager and result.success
ShouldCachePlan(st) == ResultSuccess(st)

IsFatal_Any(call, outcome) == outcome.kind # "success"

IsFatal_Never(call, outcome) == FALSE

\* a critical step that did not succeed aborts the plan
IsFatal(call, outcome) == call.critical /\ outcome.kind # "success"

\* the status of a plan that ran to its end: no critical step failed
FinalStatus(outs) ==
    IF \A i \in DOMAIN outs : outs[i].kind = "success" THEN "succeeded" ELSE "partial"

ServeFromCache_Never(cached) == FALSE

\* if cached_result: return cached_result
ServeFromCache(cached) == cached.found /\ Truthy(JsonLoads(cached.val))

\* the expiry time of the usable cached result under key, 0 when there is none
UsableUntil(key, isPlan) ==
    IF RedisGet(key).found /\ (isPlan \/ Truthy(JsonLoads(RedisGet(key).val)))
    THEN redis[key].exp ELSE 0

Record_Appends(l, i, o) == Append(l, [call |-> i, outcome |-> o])

\* the outcome o is recorded on the plan for call i: it takes the place of the
\* outcome recorded for i before, if there is one
Record(l, i, o) ==
    IF \E k \in DOMAIN l : l[k].call = i
    THEN [k \in DOMAIN l |-> IF l[k].call = i THEN [call |-> i, outcome |-> o]
                             ELSE l[k]]
    ELSE Append(l, [call |-> i, outcome |-> o])

\* the outcomes a cached plan result carries, one for each call that has one
RecordedIn(outs) ==
    LET done == {i \in DOMAIN outs : outs[i] # Pending} IN
    [k \in 1..Cardinality(done) |->
        LET i == CHOOSE j \in done : Cardinality({d \in done : d < j}) = k - 1 IN
        [call |-> i, outcome |-> outs[i]]]

\* execute(plan): the plan-result cache is asked first
PlanExecute ==
    LET cached == RedisGet(PlanKey(plan)) IN
    /\ ppc \in {"idle", "done"}
    /\ run < MaxRuns
    /\ run' = run + 1
    /\ invoked' = {}
    /\ start_exp' = [i \in 0..Len(plan) |->
                        IF i = 0 THEN UsableUntil(PlanKey(plan), TRUE)
                        ELSE UsableUntil(ToolKey(plan[i]), FALSE)]
    /\ IF cached.found
       THEN /\ plan_status' = JsonLoads(cached.val).status
            /\ outcomes' = JsonLoads(cached.val).outcomes
            /\ ledger' = RecordedIn(JsonLoads(cached.val).outcomes)
            /\ from_plan_cache' = TRUE
            /\ ppc' = "done"
            /\ step_idx' = 0
       ELSE /\ plan_status' = "running"
            /\ outcomes' = [i \in 1..Len(plan) |-> Pending]
            /\ ledger' = <<>>
            /\ from_plan_cache' = FALSE
            /\ ppc' = "stepping"
            /\ step_idx' = 1
    /\ UNCHANGED <<plan, retryVars, notPlanVars, cacheVars>>

DepsFailed_Ignored(call, outs) == FALSE

\* a step the call depends on did not succeed
DepsFailed(call, outs) == \E d \in call.deps : outs[d].kind # "success"

Attach_KeepsGoing(i, outcome) ==
    /\ outcomes' = [outcomes EXCEPT ![i] = outcome]
    /\ ledger' = Record(ledger, i, outcome)
    /\ plan_status' = IF IsFatal(plan[i], outcome) THEN "failed" ELSE plan_status
    /\ ppc' = "stepping"
    /\ step_idx' = step_idx + 1

\* the step's outcome is attached; a fatal one halts the plan
Attach(i, outcome) ==
    /\ outcomes' = [outcomes EXCEPT ![i] = outcome]
    /\ ledger' = Record(ledger, i, outcome)
    /\ IF IsFatal(plan[i], outcome)
       THEN /\ plan_status' = "failed"
            /\ ppc' = "returning"
            /\ step_idx' = step_idx
       ELSE /\ plan_status' = plan_status
            /\ ppc' = "stepping"
            /\ step_idx' = step_idx + 1

\* the next step of the plan: skipped when an upstream step did not succeed,
\* served from the tool-result cache, or handed to the retry policy
PlanStep ==
    LET i == step_idx
        call == plan[i]
        cached == RedisGet(ToolKey(call))
    IN
    /\ ppc = "stepping"
    /\ step_idx <= Len(plan)
    /\ IF DepsFailed(call, outcomes)
       THEN /\ Attach(i, UpstreamFailed)
            /\ UNCHANGED <<hit_count, retryVars>>
       ELSE /\ hit_count' = IF cached.found THEN hit_count + 1 ELSE hit_count
            /\ IF ServeFromCache(cached)
               THEN /\ Attach(i, Succeeded(JsonLoads(cached.val), TRUE))
                    /\ UNCHANGED retryVars
               ELSE /\ ppc' = "executing"
                    /\ ledger' = Record(ledger, i, Pending)
                    /\ rpc' = "calling"
                    /\ attempt' = 0
                    /\ should_retry' = IF call.retry_on_failure
                                       THEN is_retryable_error ELSE NoPredicate
                    /\ UNCHANGED <<max_retries, base_delay, max_delay, jitter,
                                   attempts, last_exception, delay, raised,
                                   failures,
                                   outcomes, plan_status, step_idx>>
    /\ UNCHANGED <<plan, run, from_plan_cache, invoked, start_exp,
                   now, redis, miss_count, last_get, notPlanVars>>

RetryReset ==
    /\ rpc' = "idle" /\ attempt' = 0 /\ attempts' = 0
    /\ last_exception' = "None" /\ delay' = 0
    /\ raised' = "None" /\ failures' = 0
    /\ UNCHANGED <<max_retries, base_delay, max_delay, jitter, should_retry>>

\* execute_with_retry returned: the result is cached and attached
StepReturned(v) ==
    LET i == step_idx IN
    /\ ppc = "executing" /\ rpc = "returned"
    /\ redis' = RedisSetex(redis, ToolKey(plan[i]), tool_ttl, JsonDumps(v),
                           [set_at |-> now, ttl |-> tool_ttl, run |-> run,
                            payload |-> v])
    /\ Attach(i, Succeeded(v, FALSE))
    /\ invoked' = invoked \cup {i}
    /\ RetryReset
    /\ UNCHANGED <<plan, run, from_plan_cache, start_exp,
                   now, hit_count, miss_count, last_get, notPlanVars>>

\* execute_with_retry raised: nothing is cached, the error is attached
StepRaised ==
    LET i == step_idx IN
    /\ ppc = "executing" /\ rpc = "raised"
    /\ Attach(i, Failed(raised))
    /\ invoked' = invoked \cup {i}
    /\ RetryReset
    /\ UNCHANGED <<plan, run, from_plan_cache, start_exp, cacheVars, notPlanVars>>

\* execute(plan) returns: a successful result is cached for plan_ttl
PlanReturn ==
    LET st == IF ppc = "returning" THEN plan_status ELSE FinalStatus(outcomes) IN
    /\ \/ ppc = "returning"
       \/ ppc = "stepping" /\ step_idx > Len(plan)
    /\ plan_status' = st
    /\ ppc' = "done"
    /\ redis' = IF ShouldCachePlan(st)
                THEN RedisSetex(redis, PlanKey(plan), plan_ttl,
                                JsonDumps([status |-> st, outcomes |-> outcomes]),
                                [set_at |-> now, ttl |-> plan_ttl, run |-> run,
                                payload |-> [status |-> st, outcomes |-> outcomes]])
                ELSE redis
    /\ UNCHANGED <<plan, run, step_idx, outcomes, from_plan_cache, invoked, start_exp,
                   ledger,
                   now, hit_count, miss_count, last_get, retryVars, notPlanVars>>

PlanTick ==
    /\ now + PlanTickStep <= MaxPlanTime
    /\ now' = now + PlanTickStep
    /\ UNCHANGED <<redis, hit_count, miss_count, last_get, notCacheVars>>

PlanNext ==
    \/ PlanExecute
    \/ PlanStep
    \/ FuncReturns
    \/ \E e \in Errors, r \in RandomSamples : FuncRaises(e, r)
    \/ RetryWake
    \/ \E v \in PlanPayloads : StepReturned(v)
    \/ StepRaised
    \/ PlanReturn
    \/ PlanTick

-----------------------------------------------------------------------------
(* MixtureOfExpertsRouter: GatingNetwork.forward, then the top-K selection   *)
(* and the renormalisation of the selected weights                           *)

\* the experts, in alphabetical order of their names
ExpertOrder == <<"closing", "discovery", "objection", "pricing", "rapport", "technical">>
Experts == {ExpertOrder[i] : i \in 1..Len(ExpertOrder)}
Rank(e) == CHOOSE i \in 1..Len(ExpertOrder) : ExpertOrder[i] = e
\* the declared cost of an expert
ExpertCost(e) == IF e \in {"pricing", "technical"} THEN 2 ELSE 1

\* the expert_specs of the two routers: the demo's three experts, and all six
CandidateSets == {{"discovery", "objection", "closing"}, Experts}
\* torch.randn_like(logits) * 0.1, in steps of the logit scale
Noises == {-1, 1}
NoNoise == 0

RECURSIVE SumOver(_, _)
SumOver(f, S) ==
    IF S = {} THEN 0
    ELSE LET e == CHOOSE x \in S : TRUE IN f[e] + SumOver(f, S \ {e})

ExpOf_Underflow(l) == IF l >= 1 THEN 2 ^ (l + 1) ELSE 0

\* the exponential of softmax, to base 2 and scaled to stay an integer
ExpOf(l) == 2 ^ (l + 1)

\* F.softmax(logits): each weight is num[e] / den
Softmax(lg) ==
    LET ex == [e \in DOMAIN lg |-> ExpOf(lg[e])] IN
    [num |-> ex, den |-> SumOver(ex, DOMAIN lg)]

NoGate == [num |-> <<>>, den |-> 1]

RouteIdle ==
    /\ candidates = {} /\ top_k = 0 /\ training = FALSE /\ logits = <<>>
    /\ rstate = "idle" /\ gate = NoGate /\ selected = {} /\ weights = NoGate
    /\ called = {}

RouteInit ==
    /\ candidates \in CandidateSets
    /\ top_k \in 1..Cardinality(candidates)
    /\ training \in BOOLEAN
    /\ logits \in [candidates -> 0..MaxLogit]
    /\ rstate = "idle" /\ gate = NoGate /\ selected = {} /\ weights = NoGate
    /\ called = {}

AddsNoise_Always(tr) == TRUE

\* if self.training: the exploration noise is added
AddsNoise(tr) == tr

\* GatingNetwork.forward: exploration noise in training mode, then softmax
GateForward ==
    /\ rstate = "idle"
    /\ \E noise \in [candidates -> Noises \cup {NoNoise}] :
          /\ IF AddsNoise(training) THEN \A e \in candidates : noise[e] \in Noises
                         ELSE \A e \in candidates : noise[e] = NoNoise
          /\ gate' = Softmax([e \in candidates |-> logits[e] + noise[e]])
    /\ rstate' = "gated"
    /\ UNCHANGED <<candidates, top_k, training, logits, selected, weights, called,
                   notRouteVars>>

\* a comes before b: higher score, then lower declared cost, then name
Before(g, a, b) ==
    \/ g.num[a] > g.num[b]
    \/ /\ g.num[a] = g.num[b]
       /\ \/ ExpertCost(a) < ExpertCost(b)
          \/ ExpertCost(a) = ExpertCost(b) /\ Rank(a) < Rank(b)

TopK(g, k) ==
    {e \in DOMAIN g.num : Cardinality({f \in DOMAIN g.num : Before(g, f, e)}) < k}

\* the selected weights divided by their sum, the others zero:
\* (num[e] / den) / (sum / den) as one fraction over a common denominator
Renormalise(g, sel) ==
    LET sum == SumOver(g.num, sel) IN
    [num |-> [e \in DOMAIN g.num |-> IF e \in sel THEN g.num[e] * g.den ELSE 0],
     den |-> sum * g.den]

\* top-K selection, renormalisation and the calls of the selected experts
SelectAndCall ==
    /\ rstate = "gated"
    /\ selected' = TopK(gate, top_k)
    /\ weights' = Renormalise(gate, TopK(gate, top_k))
    /\ called' = TopK(gate, top_k)
    /\ rstate' = "routed"
    /\ UNCHANGED <<candidates, top_k, training, logits, gate, notRouteVars>>

RouteNext ==
    \/ GateForward
    \/ SelectAndCall

-----------------------------------------------------------------------------
(* MCPLearningEngine: the record queue, the batch processor, the metrics,    *)
(* and their persistence to Redis                                            *)

batch_size == 10

Capabilities == {"knowledge_retriever"}
RecordKinds == [tool : Capabilities, success : BOOLEAN]

NoMetrics == [total_calls |-> 0, success_count |-> 0]
EmptyBatch == [r \in RecordKinds |-> 0]
BatchLen(b) == SumOver(b, RecordKinds)

Max(a, b) == IF a >= b THEN a ELSE b

flush_interval == 5
\* asyncio.Queue(): maxsize 0, a queue without a limit
maxsize == 0

QueueFull_Bounded(q) == Len(q) >= 1

\* Queue.full(): never, when maxsize is 0
QueueFull(q) == maxsize > 0 /\ Len(q) >= maxsize

\* what the last put found: the processor's state and the length of the queue
NoPut == [proc |-> "none", qlen |-> 0]

LearnInit ==
    /\ record_queue = <<>>
    /\ batch = EmptyBatch
    /\ tool_metrics = [c \in Capabilities |-> NoMetrics]
    /\ snapshot = [c \in Capabilities |-> NoMetrics]
    /\ enqueued = 0
    /\ max_seen = [c \in Capabilities |-> 0]
    /\ proc = "running" /\ rec_pc = "idle" /\ put_seen = NoPut
    /\ lclock = 0 /\ wait_since = 0 /\ queue_since = <<>> /\ batch_since = -1

\* await self.record_queue.put(record): the caller waits only on a full queue
Put(rec) ==
    /\ enqueued < MaxRecords
    /\ Len(record_queue) < MaxQueue
    /\ rec_pc # "waiting"
    /\ put_seen' = [proc |-> proc, qlen |-> Len(record_queue)]
    /\ IF QueueFull(record_queue)
       THEN /\ rec_pc' = "waiting"
            /\ UNCHANGED <<record_queue, enqueued>>
       ELSE /\ rec_pc' = "returned"
            /\ record_queue' = Append(record_queue, rec)
            /\ enqueued' = enqueued + 1

\* record_execution: the record is put on the queue
RecordExecution(rec) ==
    /\ Put(rec)
    /\ UNCHANGED <<batch, tool_metrics, snapshot, max_seen, proc, flushVars,
                   notLearnVars>>

\* _process_batch: every record of the batch is added to its tool's metrics
ProcessBatch(m, b) ==
    [c \in Capabilities |->
        [total_calls |-> m[c].total_calls
                           + b[[tool |-> c, success |-> TRUE]]
                           + b[[tool |-> c, success |-> FALSE]],
         success_count |-> m[c].success_count + b[[tool |-> c, success |-> TRUE]]]]

\* the highest total_calls seen so far, per tool
Observe(m) == [c \in Capabilities |-> Max(max_seen[c], m[c].total_calls)]

\* batch.append(record), and the flush of a batch that reached batch_size
TakeRecord ==
    /\ proc = "running"
    /\ record_queue # <<>>
    /\ record_queue' = Tail(record_queue)
    /\ LET b == [batch EXCEPT ![Head(record_queue)] = @ + 1] IN
       IF BatchLen(b) >= batch_size
       THEN /\ tool_metrics' = ProcessBatch(tool_metrics, b)
            /\ batch' = EmptyBatch
       ELSE /\ tool_metrics' = tool_metrics
            /\ batch' = b
    /\ max_seen' = Observe(tool_metrics')

\* except asyncio.TimeoutError: the batch, if any, is flushed
FlushOnTimeout ==
    /\ proc = "running"
    /\ record_queue = <<>>
    /\ IF batch # EmptyBatch
       THEN tool_metrics' = ProcessBatch(tool_metrics, batch)
       ELSE tool_metrics' = tool_metrics
    /\ batch' = EmptyBatch
    /\ max_seen' = Observe(tool_metrics')

\* _batch_processor: a record arrived before the wait timed out
ProcessorGet ==
    /\ TakeRecord
    /\ UNCHANGED <<snapshot, enqueued, proc, rec_pc, put_seen, flushVars, notLearnVars>>

\* _batch_processor: the wait for a record timed out, the batch is flushed
ProcessorTimeout ==
    /\ batch # EmptyBatch
    /\ FlushOnTimeout
    /\ UNCHANGED <<record_queue, snapshot, enqueued, proc, rec_pc, put_seen, flushVars,
                   notLearnVars>>

\* the batch processor task ends: an error of _process_batch is not caught
ProcessorStop ==
    /\ proc = "running"
    /\ proc' = "stopped"
    /\ UNCHANGED <<record_queue, batch, tool_metrics, snapshot, enqueued, max_seen,
                   rec_pc, put_seen, flushVars, notLearnVars>>

PersistTool_Torn(c) ==
    /\ snapshot' = [snapshot EXCEPT ![c].success_count = tool_metrics[c].success_count]
    /\ UNCHANGED <<record_queue, batch, tool_metrics, enqueued, max_seen, proc,
                   rec_pc, put_seen, flushVars, notLearnVars>>

\* _persist_to_redis: one hset of the loop over the tools, which writes all
\* the fields of the tool's metrics in one command
PersistTool(c) ==
    /\ snapshot' = [snapshot EXCEPT ![c] = tool_metrics[c]]
    /\ UNCHANGED <<record_queue, batch, tool_metrics, enqueued, max_seen, proc,
                   rec_pc, put_seen, flushVars, notLearnVars>>

\* the process restarts: queue and batch are gone, _load_from_redis restores
\* the metrics from the last persisted snapshot
Restart ==
    /\ record_queue' = <<>>
    /\ batch' = EmptyBatch
    /\ tool_metrics' = snapshot
    /\ max_seen' = Observe(tool_metrics')
    /\ proc' = "running" /\ rec_pc' = "idle" /\ put_seen' = NoPut
    /\ UNCHANGED <<snapshot, enqueued, flushVars, notLearnVars>>

\* _batch_processor: _process_batch raises in the except handler of the
\* timeout; nothing catches the error, the task ends and its batch with it
ProcessBatchRaises ==
    /\ proc = "running"
    /\ record_queue = <<>>
    /\ batch # EmptyBatch
    /\ proc' = "stopped"
    /\ batch' = EmptyBatch
    /\ UNCHANGED <<record_queue, tool_metrics, snapshot, enqueued, max_seen,
                   rec_pc, put_seen, flushVars, notLearnVars>>

\* the producers and the batch processor alone
LearnLiveNext ==
    \/ \E rec \in RecordKinds : RecordExecution(rec)
    \/ ProcessorGet
    \/ ProcessorTimeout
    \/ ProcessBatchRaises

LearnNext ==
    \/ \E rec \in RecordKinds : RecordExecution(rec)
    \/ ProcessorGet
    \/ ProcessorTimeout
    \/ ProcessorStop
    \/ \E c \in Capabilities : PersistTool(c)
    \/ Restart

(* The batch processor on a clock, in seconds *)

\* record_execution at time lclock
RecordExecutionAt(rec) ==
    /\ Put(rec)
    /\ queue_since' = IF QueueFull(record_queue) THEN queue_since
                      ELSE Append(queue_since, lclock)
    /\ UNCHANGED <<batch, tool_metrics, snapshot, max_seen, proc, lclock, wait_since,
                   batch_since, notLearnVars>>

\* the get of wait_for returns a record; the loop starts a new wait_for
ProcessorGetAt ==
    /\ TakeRecord
    /\ queue_since' = Tail(queue_since)
    /\ batch_since' = IF batch' = EmptyBatch THEN -1
                      ELSE IF batch_since = -1 THEN Head(queue_since)
                      ELSE batch_since
    /\ wait_since' = lclock
    /\ UNCHANGED <<snapshot, enqueued, rec_pc, put_seen, proc, lclock, notLearnVars>>

\* wait_for times out flush_interval after this wait began
ProcessorTimeoutAt ==
    /\ lclock >= wait_since + flush_interval
    /\ FlushOnTimeout
    /\ batch_since' = -1
    /\ wait_since' = lclock
    /\ UNCHANGED <<record_queue, snapshot, enqueued, rec_pc, put_seen, proc, lclock,
                   queue_since, notLearnVars>>

\* a second passes: not while a record is ready for the processor, and not
\* past the end of its wait
ClockTick ==
    /\ lclock < MaxClock
    /\ record_queue = <<>>
    /\ lclock < wait_since + flush_interval
    /\ lclock' = lclock + 1
    /\ UNCHANGED <<record_queue, batch, tool_metrics, snapshot, enqueued, max_seen,
                   proc, rec_pc, put_seen, wait_since, queue_since, batch_since, notLearnVars>>

FlushNext ==
    \/ \E rec \in RecordKinds : RecordExecutionAt(rec)
    \/ ProcessorGetAt
    \/ ProcessorTimeoutAt
    \/ ClockTick

-----------------------------------------------------------------------------
(* The plan walk in dependency order, with parallel-eligible steps running   *)
(* concurrently up to max_parallel; each call is one step that ends in       *)
(* success or, after its retries, in failure                                 *)

DagSteps == 1..3
\* every step may depend on earlier steps only
DagPlans ==
    {p \in [DagSteps -> [critical : BOOLEAN, deps : SUBSET DagSteps]] :
        \A i \in DagSteps : \A d \in p[i].deps : d < i}
Terminal == {"success", "failed", "upstream_failed"}

DagIdle ==
    /\ dag_plan = <<>> /\ step_state = <<>> /\ halted = FALSE /\ max_parallel = 1
    /\ dag_pc = "idle"

DagInit ==
    /\ dag_plan \in DagPlans
    /\ step_state = [i \in DagSteps |-> "pending"]
    /\ halted = FALSE
    /\ max_parallel \in 1..MaxParallel
    /\ dag_pc = "running"

Ready_Any(i) == TRUE

\* every declared upstream step of step i has a terminal outcome
Ready(i) == \A d \in dag_plan[i].deps : step_state[d] \in Terminal

Running == {i \in DagSteps : step_state[i] = "running"}

\* a ready step whose upstream steps all succeeded begins
DagStart(i) ==
    /\ dag_pc = "running" /\ ~halted
    /\ step_state[i] = "pending"
    /\ Ready(i)
    /\ \A d \in dag_plan[i].deps : step_state[d] \notin {"failed", "upstream_failed"}
    /\ Cardinality(Running) < max_parallel
    /\ step_state' = [step_state EXCEPT ![i] = "running"]
    /\ UNCHANGED <<dag_plan, halted, max_parallel, dag_pc, notDagVars>>

\* a ready step with an upstream step that did not succeed is skipped
DagSkip(i) ==
    /\ dag_pc = "running" /\ ~halted
    /\ step_state[i] = "pending"
    /\ Ready(i)
    /\ \E d \in dag_plan[i].deps : step_state[d] # "success"
    /\ step_state' = [step_state EXCEPT ![i] = "upstream_failed"]
    /\ halted' = dag_plan[i].critical
    /\ UNCHANGED <<dag_plan, max_parallel, dag_pc, notDagVars>>

\* a running step ends; a critical step that failed halts the plan
DagFinish(i, result) ==
    /\ dag_pc = "running"
    /\ step_state[i] = "running"
    /\ step_state' = [step_state EXCEPT ![i] = result]
    /\ halted' = (halted \/ (dag_plan[i].critical /\ result = "failed"))
    /\ UNCHANGED <<dag_plan, max_parallel, dag_pc, notDagVars>>

\* the plan returns: it was halted, or every step has a terminal outcome
DagReturn ==
    /\ dag_pc = "running"
    /\ halted \/ \A i \in DagSteps : step_state[i] \in Terminal
    /\ dag_pc' = "done"
    /\ UNCHANGED <<dag_plan, step_state, halted, max_parallel, notDagVars>>

DagNext ==
    \/ \E i \in DagSteps : DagStart(i)
    \/ \E i \in DagSteps : DagSkip(i)
    \/ \E i \in DagSteps, result \in {"success", "failed"} : DagFinish(i, result)
    \/ DagReturn

-----------------------------------------------------------------------------
(* Service worker: syncPracticeData sends the records of the pendingSync     *)
(* store to the server and deletes them from the store                       *)

PracticeIds == 1..3
\* what becomes of a fetch: the server accepts the record (2xx), the server
\* answers with an error status (fetch resolves all the same), or the request
\* fails (fetch rejects)
FetchOutcomes == {"ok", "error_status", "network_error"}

SyncIdle ==
    /\ pendingSync = {} /\ pendingData = <<>> /\ sync_pc = "idle" /\ sync_i = 0
    /\ syncs = 0 /\ accepted = {} /\ queued = {}

SyncInit ==
    /\ pendingSync \in SUBSET PracticeIds \ {{}}
    /\ queued = pendingSync
    /\ pendingData = <<>> /\ sync_pc = "idle" /\ sync_i = 0
    /\ syncs = 0 /\ accepted = {}

\* store.getAll(): the records in the order of their keys
GetAll(store) ==
    [k \in 1..Cardinality(store) |->
        CHOOSE id \in store : Cardinality({j \in store : j < id}) = k - 1]

\* the sync event: syncPracticeData reads the pending records
SyncStart ==
    /\ sync_pc \in {"idle", "done", "failed"}
    /\ syncs < MaxSyncs
    /\ syncs' = syncs + 1
    /\ pendingData' = GetAll(pendingSync)
    /\ sync_i' = 1
    /\ sync_pc' = "syncing"
    /\ UNCHANGED <<pendingSync, accepted, queued, notSyncVars>>

\* one turn of the loop: the POST of the record, then markAsSynced; only a
\* rejected fetch throws
SyncRecord(outcome) ==
    /\ sync_pc = "syncing"
    /\ sync_i <= Len(pendingData)
    /\ accepted' = IF outcome = "ok" THEN accepted \cup {pendingData[sync_i]}
                   ELSE accepted
    /\ IF outcome = "network_error"
       THEN /\ sync_pc' = "failed"
            /\ UNCHANGED <<pendingSync, sync_i>>
       ELSE /\ pendingSync' = pendingSync \ {pendingData[sync_i]}
            /\ sync_i' = sync_i + 1
            /\ sync_pc' = sync_pc
    /\ UNCHANGED <<pendingData, syncs, queued, notSyncVars>>

\* the loop is over: syncPracticeData returns
SyncDone ==
    /\ sync_pc = "syncing"
    /\ sync_i > Len(pendingData)
    /\ sync_pc' = "done"
    /\ UNCHANGED <<pendingSync, pendingData, sync_i, syncs, accepted, queued,
                   notSyncVars>>

SyncNext ==
    \/ SyncStart
    \/ \E outcome \in FetchOutcomes : SyncRecord(outcome)
    \/ SyncDone

-----------------------------------------------------------------------------
(* useOptimisticList: deleteItem removes the item at once and puts it back   *)
(* when the mutation fails                                                   *)

ItemIds == 1..4
\* the lists: up to three items, each id at most once
ItemLists ==
    {l \in UNION {[1..n -> ItemIds] : n \in 1..3} :
        \A i, j \in DOMAIN l : l[i] = l[j] => i = j}
NoItem == 0

ListIdle ==
    /\ data = <<>> /\ del_pc = "idle" /\ del_id = NoItem /\ oldData = NoItem
    /\ data_before = <<>>

ListInit ==
    /\ data \in ItemLists
    /\ del_pc = "idle" /\ del_id = NoItem /\ oldData = NoItem
    /\ data_before = <<>>

\* prev.filter((item) => item.id !== id)
Filter(l, id) == SelectSeq(l, LAMBDA item : item # id)

\* data.find((item) => item.id === id)
Find(l, id) == IF \E i \in DOMAIN l : l[i] = id THEN id ELSE NoItem

\* deleteItem(id, mutationFn): up to the await of the mutation
DeleteItem(id) ==
    /\ del_pc = "idle"
    /\ del_id' = id
    /\ data_before' = data
    /\ oldData' = Find(data, id)
    /\ IF Find(data, id) = NoItem
       THEN /\ del_pc' = "returned"
            /\ data' = data
       ELSE /\ del_pc' = "pending"
            /\ data' = Filter(data, id)
    /\ UNCHANGED notListVars

\* the mutation resolved
MutationResolves ==
    /\ del_pc = "pending"
    /\ del_pc' = "deleted"
    /\ UNCHANGED <<data, del_id, oldData, data_before, notListVars>>

\* the mutation rejected: setData((prev) => [...prev, oldData])
MutationRejects ==
    /\ del_pc = "pending"
    /\ data' = Append(data, oldData)
    /\ del_pc' = "rolled_back"
    /\ UNCHANGED <<del_id, oldData, data_before, notListVars>>

ListNext ==
    \/ \E id \in ItemIds : DeleteItem(id)
    \/ MutationResolves
    \/ MutationRejects

-----------------------------------------------------------------------------
(* StudentCustomers: handleCreateCustomer creates a customer through the API *)
(* and falls back to a locally built customer when the API call fails        *)

CustomerNames == {"Acme", "Globex"}
NoData == ""
\* what becomes of customerService.createCustomer(data)
CreateOutcomes == {"resolved", "rejected"}

\* the customer the API returns
ApiCustomer(d) == [name |-> d, creator |-> "server"]
\* the customer built locally in the catch block
MockCustomer(d) == [name |-> d, creator |-> "current-user"]

CustomersIdle ==
    /\ customers = <<>> /\ saving = FALSE /\ createDialogOpen = FALSE
    /\ create_pc = "idle" /\ create_data = NoData /\ customers_before = <<>>
    /\ creates = 0

\* useState([]), the create dialog open
CustomersInit ==
    /\ customers = <<>> /\ saving = FALSE /\ createDialogOpen = TRUE
    /\ create_pc = "idle" /\ create_data = NoData /\ customers_before = <<>>
    /\ creates = 0

\* handleCreateCustomer(data): setSaving(true), the API call is awaited
CreateStart(d) ==
    /\ create_pc \in {"idle", "returned"}
    /\ creates < MaxCreates
    /\ creates' = creates + 1
    /\ saving' = TRUE
    /\ create_data' = d
    /\ customers_before' = customers
    /\ create_pc' = "awaiting"
    /\ UNCHANGED <<customers, createDialogOpen, notCustomersVars>>

\* the API call settled: the rest of the handler, to its return
CreateSettles(outcome) ==
    LET newCustomer == IF outcome = "resolved" THEN ApiCustomer(create_data)
                       ELSE MockCustomer(create_data)
        \* setCustomers((prev) => [...prev, newCustomer]) of the catch block
        fallen == IF outcome = "rejected" THEN Append(customers, newCustomer)
                  ELSE customers
    IN
    /\ create_pc = "awaiting"
    \* if (newCustomer): setCustomers((prev) => [...prev, newCustomer])
    /\ customers' = Append(fallen, newCustomer)
    /\ createDialogOpen' = FALSE
    /\ saving' = FALSE
    /\ create_pc' = "returned"
    /\ UNCHANGED <<create_data, customers_before, creates, notCustomersVars>>

CustomersNext ==
    \/ \E d \in CustomerNames : CreateStart(d)
    \/ \E outcome \in CreateOutcomes : CreateSettles(outcome)

-----------------------------------------------------------------------------
(* useAuthStore: mockLogin, initialize, the auth state listener, and signOut  *)

NoUser == "null"
NoSession == [token |-> "null", user |-> NoUser]
Emails == {"demo@salesboost.com", "rep@salesboost.com"}
Sessions == [token : {"t1", "t2"}, user : Emails]
\* what becomes of supabase.auth.signOut(): it resolves, with or without an
\* error in its result, or it throws
SignOutOutcomes == {"resolved", "resolved_error", "thrown"}

AuthIdle ==
    /\ user = NoUser /\ session = NoSession /\ isLoading = TRUE
    /\ isAuthenticated = FALSE /\ mock_auth = FALSE /\ isSupabaseMock = FALSE
    /\ signout_pc = "idle" /\ signouts = 0 /\ remote_result = "none"

\* create<AuthState>: the initial state of the store
AuthInit ==
    /\ user = NoUser /\ session = NoSession /\ isLoading = TRUE
    /\ isAuthenticated = FALSE /\ mock_auth = FALSE
    /\ isSupabaseMock \in BOOLEAN
    /\ signout_pc = "idle" /\ signouts = 0 /\ remote_result = "none"

\* mockLogin(email)
MockLogin(email) ==
    /\ signout_pc # "awaiting"
    /\ user' = email
    /\ isAuthenticated' = TRUE
    /\ isLoading' = FALSE
    /\ mock_auth' = TRUE
    /\ signout_pc' = "idle"
    /\ UNCHANGED <<session, isSupabaseMock, signouts, remote_result, notAuthVars>>

\* initialize(): the mock-auth item first, then, outside the mock mode, the
\* session that supabase.auth.getSession() returns
Initialize(s) ==
    /\ signout_pc # "awaiting"
    /\ isLoading' = FALSE
    /\ signout_pc' = "idle"
    /\ IF mock_auth
       THEN /\ user' = "demo@salesboost.com"
            /\ isAuthenticated' = TRUE
            /\ session' = session
       ELSE IF isSupabaseMock
            THEN UNCHANGED <<user, isAuthenticated, session>>
            ELSE /\ session' = s
                 /\ user' = s.user
                 /\ isAuthenticated' = (s # NoSession)
    /\ UNCHANGED <<mock_auth, isSupabaseMock, signouts, remote_result, notAuthVars>>

\* the listener of supabase.auth.onAuthStateChange, on a sign-in
AuthStateChange(s) ==
    /\ signout_pc # "awaiting"
    /\ ~isSupabaseMock
    /\ session' = s
    /\ user' = s.user
    /\ isAuthenticated' = (s # NoSession)
    /\ isLoading' = FALSE
    /\ signout_pc' = "idle"
    /\ UNCHANGED <<mock_auth, isSupabaseMock, signouts, remote_result, notAuthVars>>

\* set({ session: null, user: null, isAuthenticated: false })
ClearAuth ==
    /\ session' = NoSession
    /\ user' = NoUser
    /\ isAuthenticated' = FALSE

\* signOut: the mock-auth item is removed; in mock mode the store is cleared
\* at once, else supabase.auth.signOut() is awaited
SignOutStart ==
    /\ signout_pc \in {"idle", "returned"}
    /\ signouts < MaxSignOuts
    /\ signouts' = signouts + 1
    /\ remote_result' = "none"
    /\ mock_auth' = FALSE
    /\ IF isSupabaseMock
       THEN /\ ClearAuth
            /\ signout_pc' = "returned"
       ELSE /\ signout_pc' = "awaiting"
            /\ UNCHANGED <<session, user, isAuthenticated>>
    /\ UNCHANGED <<isLoading, isSupabaseMock, notAuthVars>>

\* supabase.auth.signOut() settled: the store is cleared unless it threw, and
\* the catch block only logs the error
SignOutSettles(outcome) ==
    /\ signout_pc = "awaiting"
    /\ IF outcome = "thrown"
       THEN UNCHANGED <<session, user, isAuthenticated>>
       ELSE ClearAuth
    /\ signout_pc' = "returned"
    /\ remote_result' = outcome
    /\ UNCHANGED <<isLoading, mock_auth, isSupabaseMock, signouts, notAuthVars>>

AuthNext ==
    \/ \E email \in Emails : MockLogin(email)
    \/ \E s \in Sessions \cup {NoSession} : Initialize(s)
    \/ \E s \in Sessions : AuthStateChange(s)
    \/ SignOutStart
    \/ \E outcome \in SignOutOutcomes : SignOutSettles(outcome)

-----------------------------------------------------------------------------
(* Specifications *)

InitRetry == RetryInit /\ HealthInit /\ CacheIdle /\ PlanIdle /\ RouteIdle /\ LearnInit /\ KeyIdle /\ DagIdle /\ CancelIdle /\ SyncIdle /\ ListIdle /\ CustomersIdle /\ AuthIdle
SpecRetry == InitRetry /\ [][RetryNext]_vars

InitHealth == RetryIdle /\ HealthInit /\ CacheIdle /\ PlanIdle /\ RouteIdle /\ LearnInit /\ KeyIdle /\ DagIdle /\ CancelIdle /\ SyncIdle /\ ListIdle /\ CustomersIdle /\ AuthIdle
SpecHealth == InitHealth /\ [][HealthNext]_vars

InitCache == RetryIdle /\ HealthInit /\ CacheInit /\ PlanIdle /\ RouteIdle /\ LearnInit /\ KeyIdle /\ DagIdle /\ CancelIdle /\ SyncIdle /\ ListIdle /\ CustomersIdle /\ AuthIdle
SpecCache == InitCache /\ [][CacheNext]_vars

InitPlan == HealthInit /\ PlanInit /\ RouteIdle /\ LearnInit /\ KeyIdle /\ DagIdle /\ CancelIdle /\ SyncIdle /\ ListIdle /\ CustomersIdle /\ AuthIdle
SpecPlan == InitPlan /\ [][PlanNext]_vars

InitRoute == RetryIdle /\ HealthInit /\ CacheIdle /\ PlanIdle /\ RouteInit /\ LearnInit /\ KeyIdle /\ DagIdle /\ CancelIdle /\ SyncIdle /\ ListIdle /\ CustomersIdle /\ AuthIdle
SpecRoute == InitRoute /\ [][RouteNext]_vars

InitLearn == RetryIdle /\ HealthInit /\ CacheIdle /\ PlanIdle /\ RouteIdle /\ LearnInit /\ KeyIdle /\ DagIdle /\ CancelIdle /\ SyncIdle /\ ListIdle /\ CustomersIdle /\ AuthIdle
SpecLearn == InitLearn /\ [][LearnNext]_vars

\* the batch processor is a task of the event loop: while it runs, it takes a
\* record that waits and flushes its batch when the wait times out
InitLearnLive == RetryIdle /\ HealthInit /\ CacheIdle /\ PlanIdle /\ RouteIdle /\ LearnInit /\ KeyIdle /\ DagIdle /\ CancelIdle /\ SyncIdle /\ ListIdle /\ CustomersIdle /\ AuthIdle
SpecLearnLive ==
    /\ InitLearnLive /\ [][LearnLiveNext]_vars
    /\ WF_vars(ProcessorGet) /\ WF_vars(ProcessorTimeout)

InitKey == RetryIdle /\ HealthInit /\ CacheIdle /\ PlanIdle /\ RouteIdle /\ LearnInit /\ KeyInit /\ DagIdle /\ CancelIdle /\ SyncIdle /\ ListIdle /\ CustomersIdle /\ AuthIdle
SpecKey == InitKey /\ [][KeyNext]_vars

InitDag == RetryIdle /\ HealthInit /\ CacheIdle /\ PlanIdle /\ RouteIdle /\ LearnInit /\ KeyIdle /\ DagInit /\ CancelIdle /\ SyncIdle /\ ListIdle /\ CustomersIdle /\ AuthIdle
SpecDag == InitDag /\ [][DagNext]_vars

InitSync == RetryIdle /\ HealthInit /\ CacheIdle /\ PlanIdle /\ RouteIdle /\ LearnInit /\ KeyIdle /\ DagIdle /\ CancelIdle /\ SyncInit /\ ListIdle /\ CustomersIdle /\ AuthIdle
SpecSync == InitSync /\ [][SyncNext]_vars

InitList == RetryIdle /\ HealthInit /\ CacheIdle /\ PlanIdle /\ RouteIdle /\ LearnInit /\ KeyIdle /\ DagIdle /\ CancelIdle /\ SyncIdle /\ ListInit /\ CustomersIdle /\ AuthIdle
SpecList == InitList /\ [][ListNext]_vars

InitCustomers == RetryIdle /\ HealthInit /\ CacheIdle /\ PlanIdle /\ RouteIdle /\ LearnInit /\ KeyIdle /\ DagIdle /\ CancelIdle /\ SyncIdle /\ ListIdle /\ CustomersInit /\ AuthIdle
SpecCustomers == InitCustomers /\ [][CustomersNext]_vars

InitAuth == RetryIdle /\ HealthInit /\ CacheIdle /\ PlanIdle /\ RouteIdle /\ LearnInit /\ KeyIdle /\ DagIdle /\ CancelIdle /\ SyncIdle /\ ListIdle /\ CustomersIdle /\ AuthInit
SpecAuth == InitAuth /\ [][AuthNext]_vars

InitFlush == RetryIdle /\ HealthInit /\ CacheIdle /\ PlanIdle /\ RouteIdle /\ LearnInit /\ KeyIdle /\ DagIdle /\ CancelIdle /\ SyncIdle /\ ListIdle /\ CustomersIdle /\ AuthIdle
SpecFlush == InitFlush /\ [][FlushNext]_vars

-----------------------------------------------------------------------------
(* Claims *)

\* C1: execute_with_retry never performs more than max_retries + 1 attempts of
\* the wrapped function, whatever the attempts raise and whatever should_retry
\* answers.
C1_AttemptsBounded == attempts <= max_retries + 1

\* the call used every attempt it is allowed: max_retries + 1 failed attempts
C1_Witness ==
    /\ max_retries >= 2
    /\ attempts = max_retries + 1
    /\ rpc = "raised"

\* C2: the delay waited between attempt n and attempt n+1 lies within
\* [0.5, 1.0] x min(base_delay * base^n, max_delay), so never above max_delay.
C2_DelayWithinBand ==
    rpc = "sleeping" =>
        /\ 500 * CappedDelay(attempt) <= delay
        /\ delay <= 1000 * CappedDelay(attempt)
        /\ delay <= 1000 * max_delay

C4_NeverReturnedPastTtl ==
    last_get.tag # NoTag =>
        LET ttl == IF last_get.tag.ttl # 0 THEN last_get.tag.ttl ELSE default_ttl
            expired == last_get.at >= last_get.tag.set_at + ttl
        IN /\ last_get.found => ~expired
           /\ expired => (~last_get.found /\ last_get.val = "None")

\* a Get issued after the entry's TTL ran out reported a miss
C4_Witness ==
    /\ last_get.tag # NoTag
    /\ last_get.tag.ttl = 1800
    /\ last_get.at >= last_get.tag.set_at + 1800
    /\ ~last_get.found
    /\ miss_count = 1

\* C5: the cache is written only for successful outcomes: a cached plan result
\* is a succeeded one, and a step or a plan run that ended in failure, timeout
\* or error left no entry under its key.
C5_OnlySuccessCached ==
    plan # <<>> =>
        /\ redis[PlanKey(plan)].present
               => JsonLoads(redis[PlanKey(plan)].val).status = "succeeded"
        /\ \A i \in 1..Len(plan) :
               (~from_plan_cache /\ outcomes[i].kind \in {"failed", "upstream_failed"})
                   => redis[ToolKey(plan[i])].tag.run # run
        /\ (ppc = "done" /\ ~from_plan_cache /\ plan_status # "succeeded")
               => redis[PlanKey(plan)].tag.run # run

\* a run whose second step timed out after its retries: A was cached, B and the
\* plan result were not
C5_Witness ==
    /\ ppc = "done" /\ run = 1 /\ plan_status = "partial"
    /\ outcomes[1].kind = "success"
    /\ redis[ToolKey(plan[1])].tag.run = 1
    /\ outcomes[2].kind = "failed" /\ outcomes[2].error = "TimeoutError"
    /\ ~redis[ToolKey(plan[2])].present
    /\ ~redis[PlanKey(plan)].present

\* the plan A (critical) -> B (non-critical, reading A)
IsPlanAB ==
    /\ plan # <<>>
    /\ plan[1].critical /\ ~plan[2].critical /\ plan[2].deps = {1}

\* a later run of the plan that ended while the result of A cached before the
\* run was still within its TTL
SecondRunWithinTtl ==
    /\ IsPlanAB
    /\ ppc = "done" /\ run >= 2
    /\ now < start_exp[1]

\* C6 as stated: the second run serves A from the cache without executing it
\* and still invokes B.
C6_Original ==
    SecondRunWithinTtl =>
        /\ outcomes[1].kind = "success" /\ 1 \notin invoked
        /\ 2 \in invoked

\* C6 as amended: the second run serves A from the cache without executing it;
\* B is invoked exactly when no result of B is cached either: never when the
\* plan result is still cached, never while B's own cached result is usable,
\* and always when neither was cached at the start of the run.
C6_CachedStepsNotInvoked ==
    SecondRunWithinTtl =>
        /\ outcomes[1].kind = "success" /\ 1 \notin invoked
        /\ from_plan_cache \/ outcomes[1].cached
        /\ 2 \in invoked => (start_exp[0] = 0 /\ now >= start_exp[2])
        /\ (start_exp[0] = 0 /\ start_exp[2] = 0) => 2 \in invoked

\* the second run took A from the tool cache and called B, which had failed in
\* the first run
C6_Witness ==
    /\ SecondRunWithinTtl
    /\ run = 2 /\ ~from_plan_cache
    /\ outcomes[1].cached /\ 1 \notin invoked
    /\ 2 \in invoked /\ outcomes[2].kind = "failed"

\* C7: a plan ends with status failed only if a critical step has a
\* non-success terminal outcome.
C7_FailedOnlyByCritical ==
    (ppc = "done" /\ plan_status = "failed") =>
        \E i \in 1..Len(plan) :
            plan[i].critical /\ outcomes[i].kind \in {"failed", "upstream_failed"}

\* a failed plan: its critical second step was skipped because the
\* non-critical first step failed
C7_Witness ==
    /\ ppc = "done" /\ plan_status = "failed"
    /\ ~plan[1].critical /\ outcomes[1].kind = "failed"
    /\ plan[2].critical /\ outcomes[2].kind = "upstream_failed"

\* C8: a plan ends with status partial only if every critical step succeeded
\* and some non-critical step did not.
C8_PartialOnlyByNonCritical ==
    (ppc = "done" /\ plan_status = "partial") =>
        /\ \A i \in 1..Len(plan) : plan[i].critical => outcomes[i].kind = "success"
        /\ \E i \in 1..Len(plan) :
               ~plan[i].critical /\ outcomes[i].kind \in {"failed", "upstream_failed"}

\* a partial plan: the critical step succeeded, the non-critical one failed
C8_Witness ==
    /\ ppc = "done" /\ plan_status = "partial"
    /\ plan[1].critical /\ outcomes[1].kind = "success"
    /\ ~plan[2].critical /\ outcomes[2].kind = "failed"

\* C9: when Route is asked for fewer experts than there are candidates, exactly
\* top_k experts get a non-zero weight, every other expert gets weight zero and
\* is not called, and the weights sum to 1.
C9_TopKSparse ==
    (rstate = "routed" /\ top_k < Cardinality(candidates)) =>
        /\ Cardinality({e \in candidates : weights.num[e] # 0}) = top_k
        /\ \A e \in candidates \ selected : weights.num[e] = 0 /\ e \notin called
        /\ called = selected
        /\ SumOver(weights.num, candidates) = weights.den

\* two of six experts selected on a tie of all the scores
C9_Witness ==
    /\ rstate = "routed"
    /\ candidates = Experts /\ top_k = 2 /\ ~training
    /\ \A e \in candidates : logits[e] = 1
    /\ selected = {"closing", "discovery"}
    /\ weights.num["closing"] * 2 = weights.den

\* C10: total_calls of a capability never decreases, whatever the timing of
\* the batch flushes, of the persistence and of the reload of the metrics.
C10_TotalCallsMonotone ==
    \A c \in Capabilities : tool_metrics[c].total_calls >= max_seen[c]

\* C11: while the batch processor runs, no record is held unprocessed, on the
\* queue or in the batch, longer than the flush interval, also when records
\* keep arriving at shorter intervals.
C11_HeldAtMostFlushInterval ==
    /\ batch_since # -1 => lclock - batch_since <= flush_interval
    /\ \A i \in 1..Len(queue_since) : lclock - queue_since[i] <= flush_interval

\* C12: record_execution only puts the record on the queue and returns: the
\* caller never waits and is never given a failure, whatever the length of the
\* queue and whether the batch processor runs or has stopped.
C12_RecordNeverWaits ==
    /\ rec_pc \in {"idle", "returned"}
    /\ rec_pc = "returned" => enqueued >= 1

\* a record was put at once on a queue that held a record already, after the
\* batch processor had stopped
C12_Witness ==
    /\ rec_pc = "returned"
    /\ put_seen = [proc |-> "stopped", qlen |-> 1]
    /\ proc = "stopped" /\ Len(record_queue) = 2

\* C13: a successful probe moves a degraded node to online, and moves an
\* offline node out of offline.
C13_SuccessfulProbeRecovers ==
    \A n \in NodeIds :
        last_probe[n] = "healthy" =>
            /\ prev_status[n] = "degraded" => status[n] = "online"
            /\ prev_status[n] = "offline" => status[n] # "offline"

C15_LastErrorUnchanged ==
    /\ rpc = "raised" => (raised = last_exception /\ raised \in Errors
                            /\ failures = attempts)
    /\ rpc = "returned" => failures = attempts - 1
    /\ (attempts = max_retries + 1 /\ failures = attempts) => rpc = "raised"

\* three attempts failed, the last with a ValueError, which is raised
C15_Witness ==
    /\ max_retries = 2 /\ should_retry = NoPredicate
    /\ attempts = 3 /\ failures = 3
    /\ rpc = "raised" /\ raised = "ValueError"

\* the result-determining fields of a request: all but the volatile timestamp
VolatileFields == {"timestamp"}
Determining(d) == {d[i] : i \in {j \in 1..Len(d) : d[j][1] \notin VolatileFields}}
SameDetermining(a, b) ==
    /\ a.tool = b.tool
    /\ Determining(a.params) = Determining(b.params)
    /\ Determining(a.context) = Determining(b.context)

\* C16: two requests with equal result-determining parameters and context get
\* the same cache key, whatever the order of the fields and the values of the
\* volatile ones; requests that differ in a result-determining field get
\* different keys.
C16_KeyOfDeterminingFields ==
    (key_a # NoKey /\ key_b # NoKey) =>
        (key_a = key_b <=> SameDetermining(req_a, req_b))

C19_CriticalFailureHalts ==
    \A i \in DOMAIN outcomes :
        (plan[i].critical /\ outcomes[i].kind = "failed") =>
            /\ plan_status = "failed"
            /\ ppc \in {"returning", "done"}
            /\ outcomes[i].error \in Errors
            /\ \A j \in DOMAIN outcomes :
                  /\ j > i => (outcomes[j] = Pending /\ j \notin invoked)
                  /\ j < i => ~IsFatal(plan[j], outcomes[j])

\* the critical step A failed on a ValueError at its first attempt, B was never
\* started and the plan returned failed
C19_Witness ==
    /\ ppc = "done" /\ plan_status = "failed" /\ ~from_plan_cache
    /\ plan[1].critical /\ plan[1].retry_on_failure
    /\ outcomes[1] = Failed("ValueError")
    /\ outcomes[2] = Pending /\ invoked = {1}

\* C20: a step that depends on a step that did not succeed is never executed:
\* it gets the marker UpstreamFailed, is not handed to the retry policy and
\* gets no result, and only such a step gets the marker.
C20_DependentSkipped ==
    \A i \in DOMAIN outcomes :
        /\ outcomes[i].kind = "upstream_failed" <=>
              (outcomes[i] # Pending
               /\ \E d \in plan[i].deps : outcomes[d].kind # "success")
        /\ outcomes[i].kind = "upstream_failed" =>
              (i \notin invoked /\ outcomes[i] = UpstreamFailed
               /\ outcomes[i].payload = "")
        /\ (ppc = "executing" /\ step_idx = i)
              => \A d \in plan[i].deps : outcomes[d].kind = "success"

\* the non-critical A failed after four timeouts and B, which reads A, was
\* skipped
C20_Witness ==
    /\ ppc = "done" /\ plan_status = "partial"
    /\ ~plan[1].critical /\ plan[2].deps = {1}
    /\ outcomes[1] = Failed("TimeoutError")
    /\ outcomes[2] = UpstreamFailed /\ invoked = {1}

\* C18: within a plan a step never begins until every one of its declared
\* upstream steps has a terminal outcome, also when steps run concurrently.
C18_BeginsAfterUpstream ==
    \A i \in DOMAIN step_state :
        step_state[i] # "pending" =>
            \A d \in dag_plan[i].deps : step_state[d] \in Terminal

\* steps 2 and 3 run concurrently, both after step 1, which they read, ended
C18_Witness ==
    /\ dag_pc = "running" /\ max_parallel = 2
    /\ dag_plan[2].deps = {1} /\ dag_plan[3].deps = {1}
    /\ step_state[1] = "success"
    /\ step_state[2] = "running" /\ step_state[3] = "running"

\* C21: after a cancellation no further attempt is made: a call in flight and
\* a retry sleeping in its backoff delay are aborted at once, and
\* execute_with_retry ends with the cancellation, not with a retry.
C21_CancelAbortsRetries ==
    /\ cancelled => (rpc = "cancelled" /\ raised = "CancelledError")
    /\ rpc = "cancelled" => (cancelled /\ failures = attempts /\ attempts <= max_retries)

\* cancelled in the backoff delay after the second failed attempt
C21_Witness ==
    /\ rpc = "cancelled" /\ attempts = 2 /\ failures = 2 /\ max_retries = 3
    /\ last_exception = "TimeoutError" /\ delay > 0

\* C22: at every moment the plan holds at most one outcome for a call, and so
\* at most one terminal outcome: a retry leaves the one pending outcome in
\* place and the terminal outcome takes that place.
C22_OneOutcomePerCall ==
    /\ \A k, l \in DOMAIN ledger : ledger[k].call = ledger[l].call => k = l
    /\ \A k \in DOMAIN ledger : ledger[k].outcome = outcomes[ledger[k].call]
    /\ \A i \in DOMAIN outcomes :
          outcomes[i] # Pending => \E k \in DOMAIN ledger : ledger[k].call = i

\* B was retried after two failures and then succeeded: one outcome for A, one
\* for B
C22_Witness ==
    /\ ppc = "stepping" /\ step_idx = 3
    /\ Len(ledger) = 2
    /\ ledger[1].call = 1 /\ ledger[1].outcome.kind = "failed"
    /\ ledger[2].call = 2 /\ ledger[2].outcome.kind = "success"
    /\ 2 \in invoked

\* C23: success_count <= total_calls for every capability in every state: in
\* the metrics in memory, between the batch updates too, and in the snapshot
\* persisted to Redis.
C23_SuccessAtMostTotal ==
    \A c \in Capabilities :
        /\ tool_metrics[c].success_count <= tool_metrics[c].total_calls
        /\ snapshot[c].success_count <= snapshot[c].total_calls

\* a batch of ten with failures in it was flushed and persisted, and an
\* eleventh record waits in the next batch
C23_Witness ==
    /\ tool_metrics["knowledge_retriever"].total_calls = batch_size
    /\ tool_metrics["knowledge_retriever"].success_count \in 1..(batch_size - 1)
    /\ snapshot = tool_metrics
    /\ batch # EmptyBatch

\* C24: outside the training (exploration) mode no noise is added to the
\* scores: the gate weights, the selected experts and their weights are the
\* values computed from the scores, the candidates and k alone.
C24_NoNoiseOutsideExploration ==
    ~training =>
        /\ rstate # "idle" => gate = Softmax(logits)
        /\ rstate = "routed" =>
              /\ selected = TopK(Softmax(logits), top_k)
              /\ weights = Renormalise(Softmax(logits), TopK(Softmax(logits), top_k))

\* two of six experts routed outside the training mode, on unequal scores
C24_Witness ==
    /\ ~training /\ rstate = "routed"
    /\ candidates = Experts /\ top_k = 2
    /\ logits["pricing"] = 1 /\ logits["closing"] = 0 /\ logits["rapport"] = 1
    /\ selected = {"pricing", "rapport"}

\* C25: a call whose retry_on_failure flag is off is attempted exactly once:
\* after its first failed attempt the error is surfaced and no retry is made.
C25_FlagOffAttemptedOnce ==
    (ppc = "executing" /\ ~plan[step_idx].retry_on_failure) =>
        /\ attempts <= 1
        /\ failures >= 1 => rpc = "raised"

\* C26: an error raised while a batch is processed does not stop the batch
\* processor: every record enqueued after the error is eventually taken and
\* processed.
C26_ProcessorSurvivesError ==
    \A n \in 1..MaxRecords :
        (proc = "stopped" /\ enqueued = n /\ Len(record_queue) = 1)
            ~> (record_queue = <<>>)

\* C27: a record leaves the pendingSync store only after the server accepted
\* it: a record whose POST failed or was answered with an error status is
\* still pending.
C27_RemovedOnlyWhenAccepted ==
    \A id \in queued : id \notin pendingSync => id \in accepted

\* C28: when the mutation of deleteItem fails and nothing else ran meanwhile,
\* the list is again what it was before the delete: the same items in the
\* same order.
C28_RollbackRestoresList ==
    del_pc = "rolled_back" => data = data_before

\* C29: one call of handleCreateCustomer adds exactly one entry to the
\* customer list, when the create API call succeeds and when it fails and the
\* handler falls back to a locally built customer.
C29_CreateAddsOneCustomer ==
    create_pc = "returned" => Len(customers) = Len(customers_before) + 1

\* C30: after signOut returned, the auth store holds no user and no session
\* and isAuthenticated is false, also when the remote sign-out call failed.
C30_SignedOutAfterSignOut ==
    signout_pc = "returned" =>
        (user = NoUser /\ session = NoSession /\ ~isAuthenticated)

====
